---- MODULE Spec2Model ----
(***************************************************************************)
(* The two-variable linear-optimization core of the calculator:           *)
(* parseLinearOptimizationProblem, solveLinearOptimization, findIntersec-  *)
(* tion, isFeasible, evaluateObjective and formatSolution; the request     *)
(* handler POST that calls it or forwards to the AI service; and the       *)
(* Calculator component that submits to the handler.                       *)
(*                                                                         *)
(* Numbers.  The code computes in IEEE doubles.  The model computes in     *)
(* exact rationals <<n, d>> (d > 0, lowest terms).  For the inputs drawn   *)
(* here (small integers, and the tool program's 0.6 = 3/5) every product   *)
(* and sum of the code is either exact or off by far less than the 1e-10   *)
(* tolerance of the comparisons, while two distinct exact values differ by *)
(* at least 1/(d1*d2) >> 1e-10, so each comparison of the code has the     *)
(* outcome of the exact comparison modelled here.                          *)
(***************************************************************************)
EXTENDS Integers, Sequences, FiniteSets, TLC

\* the optimization core: recognizer, optimizer, formatter
VARIABLES text, lp, solution, explanation, pc
\* one execution of the request handler POST
VARIABLES request, apiKey, sanitizedProblem, aiRequest, aiReply, response, at
\* the Calculator component
VARIABLES problem, result, shown, isLoading, error, history, pending, submits

coreVars == <<text, lp, solution, explanation, pc>>
postVars == <<request, apiKey, sanitizedProblem, aiRequest, aiReply, response, at>>
uiVars == <<problem, result, shown, isLoading, error, history, pending, submits>>
vars == <<coreVars, postVars, uiVars>>

(***************************************************************************)
(* Exact rational arithmetic                                               *)
(***************************************************************************)
Abs(n) == IF n < 0 THEN -n ELSE n

RECURSIVE GCD(_, _)
GCD(a, b) == IF b = 0 THEN a ELSE GCD(b, a % b)

\* the rational n/d in lowest terms with a positive denominator
Rat(n, d) ==
  LET s == IF d < 0 THEN -1 ELSE 1
      g == GCD(Abs(n), Abs(d))
  IN  <<(s * n) \div g, (s * d) \div g>>

I(n) == <<n, 1>>
Zero == I(0)

RAdd(p, q) == Rat(p[1] * q[2] + q[1] * p[2], p[2] * q[2])
RNeg(p) == <<-p[1], p[2]>>
RSub(p, q) == RAdd(p, RNeg(q))
RMul(p, q) == Rat(p[1] * q[1], p[2] * q[2])
\* q # 0
RDiv(p, q) == Rat(p[1] * q[2], p[2] * q[1])
RAbs(p) == <<Abs(p[1]), p[2]>>
RLt(p, q) == p[1] * q[2] < q[1] * p[2]
RGt(p, q) == RLt(q, p)
RIsInt(p) == p[2] = 1

\* Math.round mistaken for Math.ceil
MathCeil(p) == I(-((-p[1]) \div p[2]))

\* Math.round: the nearest integer, halves rounded towards +infinity
MathRound(p) == I((2 * p[1] + p[2]) \div (2 * p[2]))
\* Math.max(0, p)
Max0(p) == IF RLt(p, Zero) THEN Zero ELSE p

\* The tolerance 1e-10 is 1 / (TolRoot * TolRoot).
TolRoot == 100000
CeilDiv(a, b) == -((-a) \div b)
\* p > 1e-10, that is n * 10^10 > d, computed without leaving 32 bits
GtTol(p) == p[1] > (p[2] \div TolRoot) \div TolRoot
\* p < 1e-10, that is n * 10^10 < d
LtTol(p) == p[1] < CeilDiv(CeilDiv(p[2], TolRoot), TolRoot)

(***************************************************************************)
(* Data model: Constraint, LinearProgram, Point, Solution                  *)
(***************************************************************************)
Con(a, b, c, t) == [a |-> a, b |-> b, c |-> c, type |-> t]
Pt(x, y) == [x |-> x, y |-> y]
Origin == Pt(Zero, Zero)
NoPoint == [none |-> TRUE]

\* `discrete` is optional in the code; an absent flag is falsy, as FALSE is
LP(oa, ob, ot, cs, vx, vy, disc) ==
  [objective |-> [a |-> oa, b |-> ob, type |-> ot],
   constraints |-> cs,
   variables |-> [x |-> vx, y |-> vy],
   discrete |-> disc]

NoLP == [none |-> TRUE]
NoSolution == [none |-> TRUE]
\* the text of a caller that has none: it holds a program it built itself
NoText == {}
NoExplanation == [none |-> TRUE]

(***************************************************************************)
(* Geometry kernel                                                         *)
(***************************************************************************)
\* findIntersection testing det < 1e-10 without Math.abs
findIntersectionOneSided(c1, c2) ==
  LET det == RSub(RMul(c1.a, c2.b), RMul(c1.b, c2.a))
  IN  IF LtTol(det)
      THEN NoPoint
      ELSE Pt(RDiv(RSub(RMul(c1.c, c2.b), RMul(c1.b, c2.c)), det),
              RDiv(RSub(RMul(c1.a, c2.c), RMul(c1.c, c2.a)), det))

\* findIntersection with the sign of y's numerator slipped
findIntersectionSignSlip(c1, c2) ==
  LET det == RSub(RMul(c1.a, c2.b), RMul(c1.b, c2.a))
  IN  IF LtTol(RAbs(det))
      THEN NoPoint
      ELSE Pt(RDiv(RSub(RMul(c1.c, c2.b), RMul(c1.b, c2.c)), det),
              RDiv(RSub(RMul(c1.c, c2.a), RMul(c1.a, c2.c)), det))

findIntersection(c1, c2) ==
  LET det == RSub(RMul(c1.a, c2.b), RMul(c1.b, c2.a))
  IN  IF LtTol(RAbs(det))
      THEN NoPoint
      ELSE Pt(RDiv(RSub(RMul(c1.c, c2.b), RMul(c1.b, c2.c)), det),
              RDiv(RSub(RMul(c1.a, c2.c), RMul(c1.c, c2.a)), det))

\* the loop's test with '=' taken for '<='
SatisfiesConstraintLoose(point, constraint) ==
  LET value == RAdd(RMul(constraint.a, point.x), RMul(constraint.b, point.y))
  IN  CASE constraint.type = "<=" -> ~GtTol(RSub(value, constraint.c))
        [] constraint.type = ">=" -> ~GtTol(RSub(constraint.c, value))
        [] constraint.type = "="  -> ~GtTol(RSub(value, constraint.c))

\* one iteration of the loop of isFeasible: the point passes the constraint
SatisfiesConstraint(point, constraint) ==
  LET value == RAdd(RMul(constraint.a, point.x), RMul(constraint.b, point.y))
  IN  CASE constraint.type = "<=" -> ~GtTol(RSub(value, constraint.c))
        [] constraint.type = ">=" -> ~GtTol(RSub(constraint.c, value))
        [] constraint.type = "="  -> ~GtTol(RAbs(RSub(value, constraint.c)))

NonNegative(point) == ~(RLt(point.x, Zero) \/ RLt(point.y, Zero))

\* isFeasible without its test of non-negativity
isFeasibleAnySign(point, constraints) ==
  \A k \in 1..Len(constraints) : SatisfiesConstraint(point, constraints[k])

isFeasible(point, constraints) ==
  /\ \A k \in 1..Len(constraints) : SatisfiesConstraint(point, constraints[k])
  /\ NonNegative(point)

evaluateObjective(point, objective) ==
  RAdd(RMul(objective.a, point.x), RMul(objective.b, point.y))

(***************************************************************************)
(* Vertex enumerator and optimizer                                         *)
(***************************************************************************)
\* the loops over i < j of solveLinearOptimization, from the pair (i, j) on:
\* the intersections that exist, in the order the code pushes them
RECURSIVE Intersections(_, _, _)
Intersections(constraints, i, j) ==
  IF i > Len(constraints) THEN <<>>
  ELSE IF j > Len(constraints) THEN Intersections(constraints, i + 1, i + 2)
  ELSE LET intersection == findIntersection(constraints[i], constraints[j])
       IN  (IF intersection = NoPoint THEN <<>> ELSE <<intersection>>)
             \o Intersections(constraints, i, j + 1)

\* the candidate list without the origin pushed first
CandidatesWithoutOrigin(constraints) == Intersections(constraints, 1, 2)

\* the candidate list `vertices`: the origin, then the pairwise intersections
Candidates(constraints) == <<Origin>> \o Intersections(constraints, 1, 2)

FeasibleVertices(constraints) ==
  SelectSeq(Candidates(constraints), LAMBDA vertex : isFeasible(vertex, constraints))

\* the comparison that also replaces the best vertex by an equally good one
ImprovesOrTies(value, bestValue, objective) ==
  \/ objective.type = "maximize" /\ ~RLt(value, bestValue)
  \/ objective.type = "minimize" /\ ~RGt(value, bestValue)

\* the comparison with the two directions exchanged
ImprovesExchanged(value, bestValue, objective) ==
  \/ objective.type = "maximize" /\ RLt(value, bestValue)
  \/ objective.type = "minimize" /\ RGt(value, bestValue)

\* the test that replaces the best value: strictly better in the objective's sense
Improves(value, bestValue, objective) ==
  \/ objective.type = "maximize" /\ RGt(value, bestValue)
  \/ objective.type = "minimize" /\ RLt(value, bestValue)

\* the loop `for (const vertex of feasibleVertices)` from index k on
RECURSIVE ScanVertices(_, _, _, _)
ScanVertices(feasibleVertices, k, best, objective) ==
  IF k > Len(feasibleVertices) THEN best
  ELSE LET value == evaluateObjective(feasibleVertices[k], objective)
       IN  ScanVertices(feasibleVertices, k + 1,
                        IF Improves(value, best.value, objective)
                        THEN [vertex |-> feasibleVertices[k], value |-> value]
                        ELSE best,
                        objective)

BestVertex(feasibleVertices, objective) ==
  ScanVertices(feasibleVertices, 1,
               [vertex |-> feasibleVertices[1],
                value |-> evaluateObjective(feasibleVertices[1], objective)],
               objective)

\* the neighbourhood of the repair pass: dx, dy in -Radius..Radius
Radius == 2
Side == 2 * Radius + 1
\* the k-th (dx, dy) of the two nested loops, dx outer, dy inner
Offset(k) == <<((k - 1) \div Side) - Radius, ((k - 1) % Side) - Radius>>

\* the point the loops test at (dx, dy) around the unrounded vertex
TestPoint(vertex, d) ==
  Pt(Max0(MathRound(RAdd(vertex.x, I(d[1])))),
     Max0(MathRound(RAdd(vertex.y, I(d[2])))))

\* the two nested loops of the repair pass from the k-th offset on
RECURSIVE ScanNeighbourhood(_, _, _, _)
ScanNeighbourhood(k, vertex, bestInteger, p) ==
  IF k > Side * Side THEN bestInteger
  ELSE LET test == TestPoint(vertex, Offset(k))
           testValue == evaluateObjective(test, p.objective)
       IN  ScanNeighbourhood(k + 1, vertex,
             IF isFeasible(test, p.constraints)
                /\ Improves(testValue, bestInteger.value, p.objective)
             THEN [vertex |-> test, value |-> testValue]
             ELSE bestInteger,
             p)

RoundedPoint(vertex) == Pt(MathRound(vertex.x), MathRound(vertex.y))

\* the block `if (lp.discrete)`: the best vertex and value after it
DiscreteRepair(best, p) ==
  LET rounded == RoundedPoint(best.vertex)
  IN  IF isFeasible(rounded, p.constraints)
      THEN [vertex |-> rounded, value |-> evaluateObjective(rounded, p.objective)]
      ELSE ScanNeighbourhood(1, best.vertex, best, p)

InfeasibleSolution ==
  [x |-> Zero, y |-> Zero, objectiveValue |-> Zero, feasible |-> FALSE,
   vertices |-> <<>>]

solveLinearOptimization(p) ==
  LET feasibleVertices == FeasibleVertices(p.constraints)
  IN  IF Len(feasibleVertices) = 0
      THEN InfeasibleSolution
      ELSE LET optimal == BestVertex(feasibleVertices, p.objective)
               best == IF p.discrete THEN DiscreteRepair(optimal, p) ELSE optimal
           IN  [x |-> IF p.discrete THEN MathRound(best.vertex.x) ELSE best.vertex.x,
                y |-> IF p.discrete THEN MathRound(best.vertex.y) ELSE best.vertex.y,
                objectiveValue |-> best.value,
                feasible |-> TRUE,
                vertices |-> feasibleVertices]

(***************************************************************************)
(* Problem recognizer                                                      *)
(***************************************************************************)
\* The recognizer reads a text only through String.includes of these eight
\* phrases.  None of them is a substring of another (the single letters are
\* upper case), so a text may contain any subset of them: a text is modelled
\* as the set of the phrases it contains.
Phrases ==
  {"automobile manufacturer", "Model A", "Model B",
   "Werkzeug", "C", "D", "Arbeitsstunden", "Materialkosten"}

Texts == SUBSET Phrases

includes(problemText, phrase) == phrase \in problemText

\* the program of the first template (English)
AutomobileProgram(disc) ==
  LP(I(2400), I(3600), "maximize",
     <<Con(I(1), I(0), I(600), "<="),
       Con(I(0), I(1), I(300), "<="),
       Con(I(1), I(1), I(750), "<=")>>,
     "Model A", "Model B", disc)

\* the program of the second template (German); 0.6 is 3/5
ToolProgram(disc) ==
  LP(I(8), I(5), "maximize",
     <<Con(I(5), I(6), I(4000), "<="),
       Con(I(5), Rat(3, 5), I(1500), "<="),
       Con(I(0), I(1), I(550), "<="),
       Con(I(1), I(1), I(800), "<=")>>,
     "Werkzeug C", "Werkzeug D", disc)

MatchesAutomobile(problemText) ==
  /\ includes(problemText, "automobile manufacturer")
  /\ includes(problemText, "Model A")
  /\ includes(problemText, "Model B")

MatchesTool(problemText) ==
  /\ includes(problemText, "Werkzeug")
  /\ includes(problemText, "C")
  /\ includes(problemText, "D")
  /\ includes(problemText, "Arbeitsstunden")
  /\ includes(problemText, "Materialkosten")

\* the recognizer with its two templates tried in the other order
parseToolFirst(problemText) ==
  IF MatchesTool(problemText) THEN ToolProgram(TRUE)
  ELSE IF MatchesAutomobile(problemText) THEN AutomobileProgram(TRUE)
  ELSE NoLP

parseLinearOptimizationProblem(problemText) ==
  IF MatchesAutomobile(problemText) THEN AutomobileProgram(TRUE)
  ELSE IF MatchesTool(problemText) THEN ToolProgram(TRUE)
  ELSE NoLP

(***************************************************************************)
(* Solution formatter                                                      *)
(***************************************************************************)
NoFeasibleMessage == "No feasible solution exists for the given constraints."

\* the template test with one matching name being enough
IsAutomobileNamesEither(variables) ==
  variables.x = "Model A" \/ variables.y = "Model B"

\* the template test of formatSolution
IsAutomobileNames(variables) == variables.x = "Model A" /\ variables.y = "Model B"

\* Number.toFixed(2): the nearest multiple of 1/100
ToFixed2(p) == RDiv(MathRound(RMul(p, I(100))), I(100))

\* The explanation is a template with values interpolated: the record holds
\* which template it is and every value the template interpolates.
formatSolution(sol, p) ==
  IF ~sol.feasible
  THEN [template |-> "none", message |-> NoFeasibleMessage]
  ELSE LET x == IF p.discrete THEN MathRound(sol.x) ELSE sol.x
           y == IF p.discrete THEN MathRound(sol.y) ELSE sol.y
           objectiveValue == IF p.discrete THEN MathRound(sol.objectiveValue)
                             ELSE sol.objectiveValue
       IN  IF IsAutomobileNames(p.variables)
           THEN [template |-> "automobile",
                 nameX |-> p.variables.x, nameY |-> p.variables.y,
                 x |-> x, y |-> y, objectiveValue |-> objectiveValue,
                 total |-> RAdd(x, y)]
           ELSE [template |-> "tool",
                 nameX |-> p.variables.x, nameY |-> p.variables.y,
                 x |-> x, y |-> y, objectiveValue |-> objectiveValue,
                 labor |-> MathRound(RAdd(RMul(I(5), x), RMul(I(6), y))),
                 material |-> ToFixed2(RAdd(RMul(I(5), x), RMul(Rat(3, 5), y))),
                 total |-> RAdd(x, y)]

(***************************************************************************)
(* Inputs                                                                  *)
(***************************************************************************)
\* the longest constraint list of the enumerated programs
MaxConstraints == 2

ConstraintTypes == {"<=", ">=", "="}
ObjectiveTypes == {"maximize", "minimize"}
\* the coefficient pairs (a, b), right-hand sides and objectives enumerated
CoefPairs == {<<1, 0>>, <<0, 1>>, <<1, 1>>, <<2, 1>>}
RightHandSides == {1, 2}
ObjectivePairs == {<<1, 1>>, <<1, -1>>}

ConstraintSet ==
  {Con(I(ab[1]), I(ab[2]), I(c), t) :
     ab \in CoefPairs, c \in RightHandSides, t \in ConstraintTypes}

\* p is a program as a caller builds it, named as the tests name them
IsEnumeratedProgram(p) ==
  \E n \in 0..MaxConstraints : \E cs \in [1..n -> ConstraintSet] :
    \E o \in ObjectivePairs, t \in ObjectiveTypes, d \in BOOLEAN :
      p = LP(I(o[1]), I(o[2]), t, cs, "x", "y", d)

\* the programs of the test file: the two scenarios built without and with the
\* discrete flag, the infeasible program and the program without constraints
TestPrograms ==
  {AutomobileProgram(d) : d \in BOOLEAN} \cup {ToolProgram(d) : d \in BOOLEAN}
  \cup {LP(I(1), I(1), "maximize",
           <<Con(I(1), I(0), I(5), "<="), Con(I(1), I(0), I(10), ">=")>>,
           "x", "y", d) : d \in BOOLEAN}
  \cup {LP(I(1), I(1), "maximize", <<>>, "x", "y", d) : d \in BOOLEAN}

\* the orders a caller can list n constraints in
Orderings(n) ==
  {f \in [1..n -> 1..n] : \A i, j \in 1..n : f[i] = f[j] => i = j}
Reordered(constraints, f) == [k \in 1..Len(constraints) |-> constraints[f[k]]]

\* programs whose region has the edge from (1/3, 1) to (1, 1), along which the
\* objective 3y is constant: y <= 1, 3x + y >= 2 and x <= 1 in every order
EdgeConstraints ==
  <<Con(I(0), I(1), I(1), "<="), Con(I(3), I(1), I(2), ">="),
    Con(I(1), I(0), I(1), "<=")>>
EdgePrograms ==
  {LP(I(0), I(3), t, Reordered(EdgeConstraints, f), "x", "y", d) :
     t \in ObjectiveTypes, f \in Orderings(Len(EdgeConstraints)), d \in BOOLEAN}

\* programs of other name pairs, for the formatter
NamesX == {"Model A", "Werkzeug C", "x"}
NamesY == {"Model B", "Werkzeug D", "y"}
NamedPrograms ==
  {LP(I(1), I(1), "maximize", cs, vx, vy, d) :
     cs \in {<<c>> : c \in ConstraintSet}, vx \in NamesX, vy \in NamesY, d \in BOOLEAN}

(***************************************************************************)
(* The pipeline: recognizer -> optimizer -> formatter                      *)
(***************************************************************************)
\* JavaScript values that cross the handler's boundary
Undefined == [type |-> "undefined"]
JsNull == [type |-> "null"]
JsNumber(n) == [type |-> "number", value |-> n]
JsString(chars) == [type |-> "string", value |-> chars]

\* no request has been received, nothing was sent to or came from the AI
\* service, no response has been returned
NoRequest == [json |-> "none"]
NoFetch == [sent |-> FALSE]
NoReply == [kind |-> "none"]
NoResponse == [status |-> 0]

\* the request handler is not running
PostIdle ==
  /\ request = NoRequest
  /\ apiKey = Undefined
  /\ sanitizedProblem = <<>>
  /\ aiRequest = NoFetch
  /\ aiReply = NoReply
  /\ response = NoResponse
  /\ at = "idle"

\* no request of the component is in flight
NoPending == [sent |-> FALSE]

\* the Calculator component is not mounted
UiIdle ==
  /\ problem = <<>>
  /\ result = <<>>
  /\ shown = <<>>
  /\ isLoading = FALSE
  /\ error = <<>>
  /\ history = <<>>
  /\ pending = NoPending
  /\ submits = 0

\* Either a caller holds a program it built itself (the tests), or it holds a
\* text for the recognizer (the request handler).
Init ==
  /\ \/ /\ pc = "program"
        /\ text = NoText
        /\ \/ IsEnumeratedProgram(lp)
           \/ lp \in TestPrograms
           \/ lp \in NamedPrograms
           \/ lp \in EdgePrograms
     \/ pc = "text" /\ text \in Texts /\ lp = NoLP
  /\ solution = NoSolution
  /\ explanation = NoExplanation
  /\ PostIdle
  /\ UiIdle

\* const lp = parseLinearOptimizationProblem(sanitizedProblem)
Parse ==
  /\ pc = "text"
  /\ lp' = parseLinearOptimizationProblem(text)
  /\ pc' = IF lp' = NoLP THEN "nomatch" ELSE "parsed"
  /\ UNCHANGED <<text, solution, explanation, postVars, uiVars>>

\* const solution = solveLinearOptimization(lp)
Solve ==
  /\ pc \in {"program", "parsed"}
  /\ solution' = solveLinearOptimization(lp)
  /\ pc' = "solved"
  /\ UNCHANGED <<text, lp, explanation, postVars, uiVars>>

\* const explanation = formatSolution(solution, lp)
Format ==
  /\ pc = "solved"
  /\ explanation' = formatSolution(solution, lp)
  /\ pc' = "formatted"
  /\ UNCHANGED <<text, lp, solution, postVars, uiVars>>

Next == Parse \/ Solve \/ Format

Spec == Init /\ [][Next]_vars

(***************************************************************************)
(* Reference notions the claims are stated with                            *)
(***************************************************************************)
\* the solver has returned and its Solution is at hand
Solved == pc = "solved"
Returned == Pt(solution.x, solution.y)

\* the point satisfies the relation of the constraint within the tolerance
WithinRelation(point, c) ==
  LET lhs == RAdd(RMul(c.a, point.x), RMul(c.b, point.y))
  IN  \/ c.type = "<=" /\ ~GtTol(RSub(lhs, c.c))
      \/ c.type = ">=" /\ ~GtTol(RSub(c.c, lhs))
      \/ c.type = "="  /\ ~GtTol(RSub(lhs, c.c)) /\ ~GtTol(RSub(c.c, lhs))

\* the point lies in the feasible region of the program
InRegion(point, constraints) ==
  /\ \A k \in 1..Len(constraints) : WithinRelation(point, constraints[k])
  /\ ~RLt(point.x, Zero)
  /\ ~RLt(point.y, Zero)

ValueAt(point, objective) ==
  RAdd(RMul(objective.a, point.x), RMul(objective.b, point.y))

\* v is at least as good as w in the objective's sense
AsGoodAs(v, w, objective) ==
  IF objective.type = "maximize" THEN ~RLt(v, w) ELSE ~RGt(v, w)

\* the boundary lines of the region: those of the constraints and the two axes
BoundaryLines(constraints) ==
  {<<constraints[k].a, constraints[k].b, constraints[k].c>> : k \in 1..Len(constraints)}
    \cup {<<I(1), Zero, Zero>>, <<Zero, I(1), Zero>>}

\* the corners of the region: the points of it where two boundary lines cross
Corners(constraints) ==
  LET lines == BoundaryLines(constraints)
      det(l, m) == RSub(RMul(l[1], m[2]), RMul(l[2], m[1]))
      cross(l, m) ==
        Pt(RDiv(RSub(RMul(l[3], m[2]), RMul(l[2], m[3])), det(l, m)),
           RDiv(RSub(RMul(l[1], m[3]), RMul(l[3], m[1])), det(l, m)))
  IN  {pt \in {cross(lm[1], lm[2]) :
                 lm \in {lm \in lines \X lines : RGt(det(lm[1], lm[2]), Zero)}} :
         InRegion(pt, constraints)}

\* The region lies in the quadrant x, y >= 0, so it contains no line: it is
\* non-empty exactly when it has a corner.
RegionNonEmpty(constraints) == Corners(constraints) # {}

\* d is a direction in which the region goes on for ever
Recedes(d, constraints) ==
  /\ d # <<Zero, Zero>>
  /\ ~RLt(d[1], Zero)
  /\ ~RLt(d[2], Zero)
  /\ \A k \in 1..Len(constraints) :
       LET c == constraints[k]
           slope == RAdd(RMul(c.a, d[1]), RMul(c.b, d[2]))
       IN  /\ c.type = "<=" => ~RGt(slope, Zero)
           /\ c.type = ">=" => ~RLt(slope, Zero)
           /\ c.type = "="  => slope = Zero

\* An extreme ray of the recession cone runs along a boundary line.
RegionBounded(constraints) ==
  \A l \in BoundaryLines(constraints) :
    /\ ~Recedes(<<l[2], RNeg(l[1])>>, constraints)
    /\ ~Recedes(<<RNeg(l[2]), l[1]>>, constraints)

\* a corner of the region no other corner beats
OptimalCorners(p) ==
  {v \in Corners(p.constraints) :
     \A w \in Corners(p.constraints) :
       AsGoodAs(ValueAt(v, p.objective), ValueAt(w, p.objective), p.objective)}

(***************************************************************************)
(* Claims                                                                  *)
(***************************************************************************)

\* C1: whenever solveLinearOptimization returns feasible:true, discrete or
\* not, the returned point (x, y) satisfies every constraint of the program
\* within the tolerance and has x >= 0 and y >= 0.
C1_ReturnedPointFeasible ==
  (Solved /\ solution.feasible) => InRegion(Returned, lp.constraints)

\* C2: for a program with discrete set that is returned feasible:true, x and
\* y are integers and (x, y) is feasible under the original constraints and
\* non-negativity, on both discrete paths.
C2_DiscreteIntegralAndFeasible ==
  (Solved /\ lp.discrete /\ solution.feasible) =>
     /\ RIsInt(solution.x)
     /\ RIsInt(solution.y)
     /\ InRegion(Returned, lp.constraints)

\* C3 as stated: for every program returned feasible:true, discrete included,
\* objectiveValue is at least as good as the objective value of every vertex
\* of the returned vertices list.
C3_ValueBeatsEveryVertex ==
  (Solved /\ solution.feasible) =>
     \A k \in 1..Len(solution.vertices) :
        AsGoodAs(solution.objectiveValue,
                 ValueAt(solution.vertices[k], lp.objective), lp.objective)

\* C3 amended: for every program without the discrete flag that is returned
\* feasible:true, objectiveValue is at least as good as the objective value of
\* every vertex of the returned vertices list.
C3_ContinuousValueBeatsEveryVertex ==
  (Solved /\ ~lp.discrete /\ solution.feasible) =>
     \A k \in 1..Len(solution.vertices) :
        AsGoodAs(solution.objectiveValue,
                 ValueAt(solution.vertices[k], lp.objective), lp.objective)

C3_Witness ==
  /\ Solved
  /\ ~lp.discrete
  /\ solution.feasible
  /\ Len(solution.vertices) >= 2
  /\ \E k \in 1..Len(solution.vertices) :
       ValueAt(solution.vertices[k], lp.objective) # solution.objectiveValue

\* C4: for a non-discrete program whose feasible region is non-empty and
\* bounded, the solver returns feasible:true with objectiveValue the optimum
\* of the objective over the whole region.
C4_OptimumOverRegion ==
  (/\ Solved
   /\ ~lp.discrete
   /\ RegionNonEmpty(lp.constraints)
   /\ RegionBounded(lp.constraints)) =>
     /\ solution.feasible
     /\ \A v \in OptimalCorners(lp) :
          solution.objectiveValue = ValueAt(v, lp.objective)

\* C5: for every program whose constraints list is empty, whatever the
\* objective and the discrete flag, the solver returns x = 0, y = 0,
\* objectiveValue = 0 and feasible = true.
C5_NoConstraintsGivesOrigin ==
  (Solved /\ Len(lp.constraints) = 0) =>
     /\ solution.x = Zero
     /\ solution.y = Zero
     /\ solution.objectiveValue = Zero
     /\ solution.feasible

C5_Witness ==
  /\ Solved
  /\ Len(lp.constraints) = 0
  /\ lp.discrete
  /\ lp.objective.type = "minimize"
  /\ lp.objective.b = I(-1)

\* C6: for every program whose constraints no point with x >= 0, y >= 0
\* satisfies, the solver returns exactly
\* {x:0, y:0, objectiveValue:0, feasible:false, vertices:[]}.
C6_EmptyRegionReturnsInfeasible ==
  (Solved /\ ~RegionNonEmpty(lp.constraints)) =>
     solution = [x |-> Zero, y |-> Zero, objectiveValue |-> Zero,
                 feasible |-> FALSE, vertices |-> <<>>]

\* the program of the test: x <= 5 and x >= 10
C6_Witness ==
  /\ Solved
  /\ Len(lp.constraints) = 2
  /\ lp.constraints[1] = Con(I(1), I(0), I(5), "<=")
  /\ lp.constraints[2] = Con(I(1), I(0), I(10), ">=")
  /\ ~RegionNonEmpty(lp.constraints)
  /\ ~solution.feasible

IsAutomobile(p) ==
  /\ p.objective = [a |-> I(2400), b |-> I(3600), type |-> "maximize"]
  /\ p.constraints = <<Con(I(1), I(0), I(600), "<="),
                       Con(I(0), I(1), I(300), "<="),
                       Con(I(1), I(1), I(750), "<=")>>

\* C7: for the automobile program, as the test builds it (no discrete flag)
\* and as the recognizer returns it (discrete), the solver returns
\* feasible = true, x = 450, y = 300 and objectiveValue = 2160000.
C7_AutomobileSolution ==
  (Solved /\ IsAutomobile(lp)) =>
     /\ solution.feasible
     /\ solution.x = I(450)
     /\ solution.y = I(300)
     /\ solution.objectiveValue = I(2160000)

\* the recognizer's program, reached from a text
C7_Witness ==
  /\ Solved
  /\ IsAutomobile(lp)
  /\ lp.discrete
  /\ "automobile manufacturer" \in text

IsTool(p) ==
  /\ p.objective = [a |-> I(8), b |-> I(5), type |-> "maximize"]
  /\ p.constraints = <<Con(I(5), I(6), I(4000), "<="),
                       Con(I(5), Rat(3, 5), I(1500), "<="),
                       Con(I(0), I(1), I(550), "<="),
                       Con(I(1), I(1), I(800), "<=")>>

\* C8: for the tool program solved with discrete:true the solver returns
\* feasible = true with integer x and y that satisfy all four constraints, in
\* particular 5x + 6y <= 4000.
C8_ToolSolution ==
  (Solved /\ IsTool(lp) /\ lp.discrete) =>
     /\ solution.feasible
     /\ RIsInt(solution.x)
     /\ RIsInt(solution.y)
     /\ InRegion(Returned, lp.constraints)
     /\ 5 * solution.x[1] + 6 * solution.y[1] <= 4000

C8_Witness ==
  /\ Solved
  /\ IsTool(lp)
  /\ lp.discrete
  /\ solution.feasible
  /\ <<solution.x, solution.y>> # <<Zero, Zero>>

HasAutomobileSignature(t) ==
  {"automobile manufacturer", "Model A", "Model B"} \subseteq t
HasToolSignature(t) ==
  {"Werkzeug", "C", "D", "Arbeitsstunden", "Materialkosten"} \subseteq t

\* C9: the recognizer returns a program only for the two templates: the
\* automobile program (objective 2400, 3600, three constraints) for a text with
\* the automobile signature; the tool program (objective 8, 5, exactly four
\* constraints, one of them 5x + 6y <= 4000) for a text with the tool signature
\* and not the automobile one; null for every other text.
C9_RecognizerTemplates ==
  (pc \in {"parsed", "nomatch"}) =>
     /\ HasAutomobileSignature(text) =>
          /\ lp # NoLP
          /\ lp.objective.a = I(2400)
          /\ lp.objective.b = I(3600)
          /\ Len(lp.constraints) = 3
     /\ (HasToolSignature(text) /\ ~HasAutomobileSignature(text)) =>
          /\ lp # NoLP
          /\ lp.objective.a = I(8)
          /\ lp.objective.b = I(5)
          /\ Len(lp.constraints) = 4
          /\ \E k \in 1..4 : lp.constraints[k] = Con(I(5), I(6), I(4000), "<=")
     /\ (~HasToolSignature(text) /\ ~HasAutomobileSignature(text)) => lp = NoLP

\* a text with both signatures, and the automobile program returned for it
C9_Witness ==
  /\ pc = "parsed"
  /\ HasAutomobileSignature(text)
  /\ HasToolSignature(text)
  /\ IsAutomobile(lp)

\* C10: formatSolution returns the fixed message whenever solution.feasible is
\* false, whatever the program; otherwise it selects the automobile template
\* exactly when variables.x = 'Model A' and variables.y = 'Model B', and the
\* tool template for every other program.
C10_FormatterTemplate ==
  (pc = "formatted") =>
     IF ~solution.feasible
     THEN explanation =
            [template |-> "none",
             message |-> "No feasible solution exists for the given constraints."]
     ELSE IF lp.variables = [x |-> "Model A", y |-> "Model B"]
          THEN explanation.template = "automobile"
          ELSE explanation.template = "tool"

\* a program of neither shipped scenario, formatted with the tool template
C10_Witness ==
  /\ pc = "formatted"
  /\ solution.feasible
  /\ lp.variables = [x |-> "Model A", y |-> "y"]
  /\ explanation.template = "tool"

(***************************************************************************)
(* Strings                                                                 *)
(***************************************************************************)
\* A string is the sequence of its characters, each a one-character string.
\* Positions are JavaScript's: the first character is at index 0.
Chr(s, i) == s[i + 1]

Min2(a, b) == IF a < b THEN a ELSE b

WhiteSpace == {" ", "\n", "\t", "\r"}

\* String.prototype.trim
Trim(s) ==
  LET kept == {i \in 1..Len(s) : s[i] \notin WhiteSpace}
  IN IF kept = {} THEN <<>>
     ELSE SubSeq(s,
            CHOOSE i \in kept : \A j \in 1..(i - 1) : s[j] \in WhiteSpace,
            CHOOSE i \in kept : \A j \in (i + 1)..Len(s) : s[j] \in WhiteSpace)

\* String.prototype.substring(start, end) for 0 <= start <= end
Substring(s, start, end) == SubSeq(s, Min2(start, Len(s)) + 1, Min2(end, Len(s)))

\* String.prototype.substring(start)
SubstringFrom(s, start) == SubSeq(s, Min2(start, Len(s)) + 1, Len(s))

UpperCaseLetters ==
  <<"A", "B", "C", "D", "E", "F", "G", "H", "I", "J", "K", "L", "M", "N",
    "O", "P", "Q", "R", "S", "T", "U", "V", "W", "X", "Y", "Z">>

LowerCaseLetters ==
  <<"a", "b", "c", "d", "e", "f", "g", "h", "i", "j", "k", "l", "m", "n",
    "o", "p", "q", "r", "s", "t", "u", "v", "w", "x", "y", "z">>

\* String.prototype.toLowerCase, one character
LowerChar(c) ==
  IF \E k \in 1..Len(UpperCaseLetters) : UpperCaseLetters[k] = c
  THEN LowerCaseLetters[CHOOSE k \in 1..Len(UpperCaseLetters) : UpperCaseLetters[k] = c]
  ELSE c

\* String.prototype.toLowerCase
ToLowerCase(s) == [i \in 1..Len(s) |-> LowerChar(s[i])]

\* the characters of s from index i on begin with p
MatchesAt(s, p, i) ==
  /\ i + Len(p) <= Len(s)
  /\ \A j \in 1..Len(p) : s[i + j] = p[j]

\* String.prototype.startsWith
StartsWith(s, p) == MatchesAt(s, p, 0)

\* String.prototype.includes
StrIncludes(s, p) == \E i \in 0..(Len(s) - Len(p)) : MatchesAt(s, p, i)

\* String.prototype.indexOf from index `from` on; -1 when p does not occur
IndexOfFrom(s, p, from) ==
  LET found == {i \in from..(Len(s) - Len(p)) : MatchesAt(s, p, i)}
  IN IF found = {} THEN -1 ELSE CHOOSE i \in found : \A j \in found : i <= j

\* String.prototype.split(separator) for a non-empty separator
RECURSIVE SplitFrom(_, _, _)
SplitFrom(s, sep, from) ==
  LET i == IndexOfFrom(s, sep, from)
  IN IF i = -1 THEN <<SubstringFrom(s, from)>>
     ELSE <<Substring(s, from, i)>> \o SplitFrom(s, sep, i + Len(sep))

Split(s, sep) == SplitFrom(s, sep, 0)

\* concatenation of a sequence of strings
RECURSIVE Concat(_)
Concat(parts) ==
  IF parts = <<>> THEN <<>> ELSE Head(parts) \o Concat(Tail(parts))

(***************************************************************************)
(* Request handler: its helper functions                                   *)
(***************************************************************************)
\* typeof
TypeOf(v) == IF v.type = "null" THEN "object" ELSE v.type

\* !v : undefined, null, 0, false and '' are falsy
Falsy(v) ==
  \/ v.type \in {"undefined", "null"}
  \/ v.type = "number" /\ v.value = 0
  \/ v.type = "boolean" /\ ~v.value
  \/ v.type = "string" /\ v.value = <<>>

\* the length limit of sanitizeInput
MaxProblemLength == 1000

\* input.trim().substring(0, 1000)
\* sanitizeInput without its limit of length
sanitizeInputUncut(input) == Trim(input)

sanitizeInput(input) == Substring(Trim(input), 0, MaxProblemLength)

\* /violence|kill|harm|illegal|drug|weapon/i
ViolenceWords ==
  {<<"v","i","o","l","e","n","c","e">>,
   <<"k","i","l","l">>,
   <<"h","a","r","m">>,
   <<"i","l","l","e","g","a","l">>,
   <<"d","r","u","g">>,
   <<"w","e","a","p","o","n">>}

\* /system\s*prompt|instruction|config/i : the two plain alternatives
InstructionWords ==
  {<<"i","n","s","t","r","u","c","t","i","o","n">>,
   <<"c","o","n","f","i","g">>}

\* /password|secret|key/i
SecretWords ==
  {<<"p","a","s","s","w","o","r","d">>,
   <<"s","e","c","r","e","t">>,
   <<"k","e","y">>}

SystemWord ==
  <<"s","y","s","t","e","m">>

PromptWord ==
  <<"p","r","o","m","p","t">>

\* a case-insensitive pattern of plain alternatives finds one of them
TestAlternatives(words, s) ==
  \E low \in {ToLowerCase(s)} : \E w \in words : StrIncludes(low, w)

\* /system\s*prompt/i : 'system', any number of white-space characters, 'prompt'
TestSystemPrompt(s) ==
  \E low \in {ToLowerCase(s)} : \E i \in 0..Len(s) :
    /\ MatchesAt(low, SystemWord, i)
    /\ \E j \in (i + Len(SystemWord))..Len(s) :
         /\ \A k \in (i + Len(SystemWord))..(j - 1) : Chr(low, k) \in WhiteSpace
         /\ MatchesAt(low, PromptWord, j)

isRequestSafe(p) ==
  ~(\/ TestAlternatives(ViolenceWords, p)
    \/ TestSystemPrompt(p)
    \/ TestAlternatives(InstructionWords, p)
    \/ TestAlternatives(SecretWords, p))

\* the keywords of the heuristic ('profit' is listed twice in the source)
OptimizationKeywords ==
  {<<"m","a","x","i","m","i","z","e">>,
   <<"m","i","n","i","m","i","z","e">>,
   <<"p","r","o","f","i","t">>,
   <<"c","o","s","t">>,
   <<"p","r","o","d","u","c","t","i","o","n">>,
   <<"c","o","n","s","t","r","a","i","n","t">>,
   <<"l","i","m","i","t">>,
   <<"m","a","x","i","m","u","m">>,
   <<"m","i","n","i","m","u","m">>,
   <<"o","p","t","i","m","i","z","e">>,
   <<"g","e","w","i","n","n">>,
   <<"m","a","x","i","m","i","e","r","e","n">>,
   <<"a","r","b","e","i","t","s","s","t","u","n","d","e","n">>,
   <<"m","a","t","e","r","i","a","l">>}

ProductWords ==
  {<<"c","a","r">>,
   <<"p","r","o","d","u","c","t">>,
   <<"i","t","e","m">>,
   <<"w","e","r","k","z","e","u","g">>}

isLinearOptimizationProblem(p) ==
  \E lowerProblem \in {ToLowerCase(p)} :
    /\ \E keyword \in OptimizationKeywords : StrIncludes(lowerProblem, keyword)
    /\ \E word \in ProductWords : StrIncludes(lowerProblem, word)

\* the characters of the recognizer's phrases
PhraseChars(phrase) ==
  CASE phrase = "automobile manufacturer" ->
         <<"a","u","t","o","m","o","b","i","l","e"," ","m","a","n","u","f",
           "a","c","t","u","r","e","r">>
    [] phrase = "Model A" -> <<"M","o","d","e","l"," ","A">>
    [] phrase = "Model B" -> <<"M","o","d","e","l"," ","B">>
    [] phrase = "Werkzeug" -> <<"W","e","r","k","z","e","u","g">>
    [] phrase = "C" -> <<"C">>
    [] phrase = "D" -> <<"D">>
    [] phrase = "Arbeitsstunden" ->
         <<"A","r","b","e","i","t","s","s","t","u","n","d","e","n">>
    [] phrase = "Materialkosten" ->
         <<"M","a","t","e","r","i","a","l","k","o","s","t","e","n">>

\* what the recognizer sees of a string: the phrases it includes
PhrasesIn(s) == {phrase \in Phrases : StrIncludes(s, PhraseChars(phrase))}

(***************************************************************************)
(* Request handler: responses                                              *)
(***************************************************************************)
\* 'No problem provided or invalid format'
NoProblemMessage ==
  <<"N","o"," ","p","r","o","b","l","e","m"," ","p","r","o","v","i","d","e",
    "d"," ","o","r"," ","i","n","v","a","l","i","d"," ","f","o","r","m","a",
    "t">>

\* 'Request contains inappropriate content'
InappropriateMessage ==
  <<"R","e","q","u","e","s","t"," ","c","o","n","t","a","i","n","s"," ","i",
    "n","a","p","p","r","o","p","r","i","a","t","e"," ","c","o","n","t","e",
    "n","t">>

\* 'Server configuration error'
ConfigurationMessage ==
  <<"S","e","r","v","e","r"," ","c","o","n","f","i","g","u","r","a","t","i",
    "o","n"," ","e","r","r","o","r">>

\* 'AI service temporarily unavailable'
UnavailableMessage ==
  <<"A","I"," ","s","e","r","v","i","c","e"," ","t","e","m","p","o","r","a",
    "r","i","l","y"," ","u","n","a","v","a","i","l","a","b","l","e">>

\* 'Request rejected by AI safety filters'
FilteredMessage ==
  <<"R","e","q","u","e","s","t"," ","r","e","j","e","c","t","e","d"," ","b",
    "y"," ","A","I"," ","s","a","f","e","t","y"," ","f","i","l","t","e","r",
    "s">>

\* 'No detailed explanation provided.'
NoExplanationMessage ==
  <<"N","o"," ","d","e","t","a","i","l","e","d"," ","e","x","p","l","a","n",
    "a","t","i","o","n"," ","p","r","o","v","i","d","e","d",".">>

\* 'Internal server error'
InternalErrorMessage ==
  <<"I","n","t","e","r","n","a","l"," ","s","e","r","v","e","r"," ","e","r",
    "r","o","r">>

\* 'REJECTED:'
RejectedPrefix ==
  <<"R","E","J","E","C","T","E","D",":">>

\* 'FINAL ANSWER:'
FinalAnswerPrefix ==
  <<"F","I","N","A","L"," ","A","N","S","W","E","R",":">>

\* 'EXPLANATION:'
ExplanationMarker ==
  <<"E","X","P","L","A","N","A","T","I","O","N",":">>

NewLine == <<"\n">>

\* NextResponse.json(body, { status })
Json(httpStatus, body) == [status |-> httpStatus, body |-> body]

Rejected(message) == Json(400, [status |-> "rejected", message |-> message])

Failed(httpStatus, message) ==
  Json(httpStatus, [status |-> "error", message |-> message])

Success(task, finalAnswer, explained) ==
  Json(200, [status |-> "success", task |-> task,
             final_answer |-> finalAnswer, explanation |-> explained])

\* the local answer with the two quantities exchanged
LocalAnswerExchanged(sol, p) ==
  [x |-> MathRound(sol.y),
   nameX |-> p.variables.x,
   y |-> MathRound(sol.x),
   nameY |-> p.variables.y,
   objectiveValue |-> MathRound(sol.objectiveValue)]

\* the values interpolated into the local answer 'Produce x units of ... and
\* y units of ... for maximum profit of Fr. ...', rounded for a discrete
\* program (toLocaleString then only groups the digits of the value)
LocalAnswer(sol, p) ==
  [x |-> IF p.discrete THEN MathRound(sol.x) ELSE sol.x,
   nameX |-> p.variables.x,
   y |-> IF p.discrete THEN MathRound(sol.y) ELSE sol.y,
   nameY |-> p.variables.y,
   objectiveValue |-> IF p.discrete THEN MathRound(sol.objectiveValue)
                      ELSE sol.objectiveValue]

\* the two texts taken from such a reply without trimming them
ParseFinalAnswerUntrimmed(aiResponse) ==
  LET parts == Split(aiResponse, ExplanationMarker)
  IN IF Len(parts) >= 2
     THEN [finalAnswer |-> SubstringFrom(parts[1], 13),
           explanation |-> parts[2]]
     ELSE [finalAnswer |-> SubstringFrom(aiResponse, 13),
           explanation |-> NoExplanationMessage]

\* finalAnswer and explanation read from a reply that begins with
\* 'FINAL ANSWER:'
ParseFinalAnswer(aiResponse) ==
  LET parts == Split(aiResponse, ExplanationMarker)
  IN IF Len(parts) >= 2
     THEN [finalAnswer |-> Trim(SubstringFrom(parts[1], 13)),
           explanation |-> Trim(parts[2])]
     ELSE [finalAnswer |-> Trim(SubstringFrom(aiResponse, 13)),
           explanation |-> NoExplanationMessage]

\* finalAnswer and explanation of a reply that does not follow the format
ParseFreeText(aiResponse) ==
  LET firstLine == Split(aiResponse, NewLine)[1]
  IN [finalAnswer |-> IF firstLine = <<>> THEN aiResponse ELSE firstLine,
      explanation |-> aiResponse]

\* the response made from the content of an OK reply of the AI service
MapAiResponse(aiResponse, task) ==
  IF StartsWith(aiResponse, RejectedPrefix)
  THEN LET rejectionReason == Trim(SubstringFrom(aiResponse, 9))
       IN Rejected(IF rejectionReason = <<>> THEN FilteredMessage
                   ELSE rejectionReason)
  ELSE LET parsed == IF StartsWith(aiResponse, FinalAnswerPrefix)
                     THEN ParseFinalAnswer(aiResponse)
                     ELSE ParseFreeText(aiResponse)
       IN Success(task, parsed.finalAnswer, parsed.explanation)

(***************************************************************************)
(* Request handler POST                                                    *)
(***************************************************************************)
\* request.json() rejects
Unparsable == [type |-> "unparsable"]

\* a JSON object read from the request; a field it lacks reads as undefined
Body(problemField) == [type |-> "object", problem |-> problemField]

\* the optimization core has not been entered
CoreIdle ==
  /\ pc = "idle"
  /\ text = NoText
  /\ lp = NoLP
  /\ solution = NoSolution
  /\ explanation = NoExplanation

\* a request arrives at a server with some environment
PostInit(bodies, keys) ==
  /\ request \in [body : bodies]
  /\ apiKey \in keys
  /\ sanitizedProblem = <<>>
  /\ aiRequest = NoFetch
  /\ aiReply = NoReply
  /\ response = NoResponse
  /\ at = "received"
  /\ CoreIdle
  /\ UiIdle

\* return NextResponse.json(...)
Return(r) ==
  /\ response' = r
  /\ at' = "done"

\* const body = await request.json(); const { problem } = body;
\* reading a field of null throws as a rejected request.json() does
ReadBody ==
  /\ at = "received"
  /\ IF request.body.type \in {"unparsable", "null"}
     THEN Return(Failed(500, InternalErrorMessage))
     ELSE at' = "validate" /\ UNCHANGED response
  /\ UNCHANGED <<request, apiKey, sanitizedProblem, aiRequest, aiReply>>
  /\ UNCHANGED <<coreVars, uiVars>>

\* the validation with the test for an empty value left out
InvalidProblemEmptyAccepted(v) == TypeOf(v) # "string"

\* !problem || typeof problem !== 'string'
InvalidProblem(v) == Falsy(v) \/ TypeOf(v) # "string"

\* Validate input, then sanitize it
Validate ==
  /\ at = "validate"
  /\ IF InvalidProblem(request.body.problem)
     THEN Return(Rejected(NoProblemMessage)) /\ UNCHANGED sanitizedProblem
     ELSE /\ sanitizedProblem' = sanitizeInput(request.body.problem.value)
          /\ at' = "safety"
          /\ UNCHANGED response
  /\ UNCHANGED <<request, apiKey, aiRequest, aiReply>>
  /\ UNCHANGED <<coreVars, uiVars>>

\* Safety check
SafetyCheck ==
  /\ at = "safety"
  /\ IF ~isRequestSafe(sanitizedProblem)
     THEN Return(Rejected(InappropriateMessage))
     ELSE at' = "heuristic" /\ UNCHANGED response
  /\ UNCHANGED <<request, apiKey, sanitizedProblem, aiRequest, aiReply>>
  /\ UNCHANGED <<coreVars, uiVars>>

\* if (isLinearOptimizationProblem(sanitizedProblem)): the text is handed to
\* the recognizer, whose steps are Parse, Solve and Format
Heuristic ==
  /\ at = "heuristic"
  /\ IF isLinearOptimizationProblem(sanitizedProblem)
     THEN /\ at' = "solver"
          /\ text' = PhrasesIn(sanitizedProblem)
          /\ pc' = "text"
     ELSE /\ at' = "apikey"
          /\ UNCHANGED <<text, pc>>
  /\ UNCHANGED <<lp, solution, explanation>>
  /\ UNCHANGED <<request, apiKey, sanitizedProblem, aiRequest, aiReply, response>>
  /\ UNCHANGED uiVars

\* if (lp) { ... return NextResponse.json({ status: "success", ... }) }
RespondLocal ==
  /\ at = "solver"
  /\ pc = "formatted"
  /\ Return(Success(sanitizedProblem, LocalAnswer(solution, lp), explanation))
  /\ UNCHANGED <<request, apiKey, sanitizedProblem, aiRequest, aiReply>>
  /\ UNCHANGED <<coreVars, uiVars>>

\* the recognizer returned null: the handler leaves the solver block.  (The
\* catch of the block leads to the same place; the two programs the
\* recognizer can return make neither the optimizer nor the formatter throw.)
FallThrough ==
  /\ at = "solver"
  /\ pc = "nomatch"
  /\ at' = "apikey"
  /\ UNCHANGED <<request, apiKey, sanitizedProblem, aiRequest, aiReply, response>>
  /\ UNCHANGED <<coreVars, uiVars>>

\* the check of the environment variable skipped: fetch with any key
MissingKeyIgnored(key) == FALSE

\* !openRouterApiKey
MissingKey(key) == Falsy(key)

\* Check for environment variables, then call the OpenRouter API
CheckApiKey ==
  /\ at = "apikey"
  /\ IF MissingKey(apiKey)
     THEN Return(Failed(500, ConfigurationMessage)) /\ UNCHANGED aiRequest
     ELSE /\ aiRequest' = [sent |-> TRUE, key |-> apiKey,
                           content |-> sanitizedProblem]
          /\ at' = "fetch"
          /\ UNCHANGED response
  /\ UNCHANGED <<request, apiKey, sanitizedProblem, aiReply>>
  /\ UNCHANGED <<coreVars, uiVars>>

\* what fetch can settle with: a rejection, a non-OK response, an OK response
\* whose body is not JSON, or an OK response whose JSON holds some content
\* (undefined when the path choices[0].message.content is missing).  The
\* body of a response that was delivered can be read as text, whatever it is.
Replies(contents) ==
  {[kind |-> "failed"], [kind |-> "unparsable"]}
  \cup [kind : {"notok"}, status : {429, 500, 502}]
  \cup [kind : {"ok"}, content : contents]

\* await fetch(...) settles
FetchSettles(contents) ==
  /\ at = "fetch"
  /\ aiReply' \in Replies(contents)
  /\ at' = "reply"
  /\ UNCHANGED <<request, apiKey, sanitizedProblem, aiRequest, response>>
  /\ UNCHANGED <<coreVars, uiVars>>

\* data?.choices?.[0]?.message?.content || ''
ContentOrEmpty(content) == IF Falsy(content) THEN JsString(<<>>) ELSE content

\* a rejected fetch and an unparsable body taken for a non-OK reply
HandledWithoutCatch(reply, task) ==
  CASE reply.kind \in {"failed", "unparsable", "notok"} ->
         Failed(502, UnavailableMessage)
    [] reply.kind = "ok" ->
         LET aiResponse == ContentOrEmpty(reply.content)
         IN IF TypeOf(aiResponse) # "string"
            THEN Failed(500, InternalErrorMessage)
            ELSE MapAiResponse(aiResponse.value, task)

\* a non-OK reply answered like an OK one
HandledAsOk(reply, task) == MapAiResponse(<<>>, task)

\* the rest of the handler, from `if (!response.ok)` to its catch block
Handled(reply, task) ==
  CASE reply.kind \in {"failed", "unparsable"} ->
         Failed(500, InternalErrorMessage)
    [] reply.kind = "notok" -> Failed(502, UnavailableMessage)
    [] reply.kind = "ok" ->
         LET aiResponse == ContentOrEmpty(reply.content)
         IN IF TypeOf(aiResponse) # "string"
            THEN Failed(500, InternalErrorMessage)
            ELSE MapAiResponse(aiResponse.value, task)

HandleReply ==
  /\ at = "reply"
  /\ Return(Handled(aiReply, sanitizedProblem))
  /\ UNCHANGED <<request, apiKey, sanitizedProblem, aiRequest, aiReply>>
  /\ UNCHANGED <<coreVars, uiVars>>

(***************************************************************************)
(* Requests, environments and AI replies                                   *)
(***************************************************************************)
\* the largest number of fragments in a problem text
MaxParts == 2

\* the largest number of fragments in the content of an AI reply
MaxAiParts == 3

\* the strings made of at most n of the given fragments
StringsOf(fragments, n) ==
  {Concat(parts) : parts \in UNION {[1..k -> fragments] : k \in 0..n}}

\* fragments of problem texts: white space, plain arithmetic, words of the
\* unsafe patterns, words of the heuristic, and a text for each template of
\* the recognizer
ProblemFragments ==
  {<<" ">>,
   <<"2"," ","+"," ","2">>,
   <<"k","i","l","l">>,
   <<"K","E","Y">>,
   <<"s","y","s","t","e","m">>,
   <<"p","r","o","m","p","t">>,
   <<"m","a","x","i","m","i","z","e">>,
   <<"c","a","r">>,
   <<"A","n"," ","a","u","t","o","m","o","b","i","l","e"," ","m","a","n",
     "u","f","a","c","t","u","r","e","r"," ","b","u","i","l","d","s"," ",
     "M","o","d","e","l"," ","A"," ","a","n","d"," ","M","o","d","e","l",
     " ","B"," ","c","a","r","s"," ","f","o","r"," ","p","r","o","f","i",
     "t",".">>,
   <<"W","e","r","k","z","e","u","g"," ","C",","," ","W","e","r","k","z",
     "e","u","g"," ","D",","," ","A","r","b","e","i","t","s","s","t","u",
     "n","d","e","n",","," ","M","a","t","e","r","i","a","l","k","o","s",
     "t","e","n">>}

\* the problems of the tests
TestProblems ==
  {<<"W","h","a","t"," ","i","s"," ","2"," ","+"," ","2","?">>,
   <<"H","o","w"," ","t","o"," ","m","a","k","e"," ","a"," ","b","o","m",
     "b","?">>,
   <<"T","e","l","l"," ","m","e"," ","h","o","w"," ","t","o"," ","m","a",
     "k","e"," ","a"," ","b","o","m","b">>}

\* a problem longer than the limit, with an unsafe word beyond the limit
LongProblem ==
  [i \in 1..(MaxProblemLength + 3) |->
     IF i <= MaxProblemLength THEN "a"
     ELSE <<"k","e","y">>[i - MaxProblemLength]]

ProblemTexts ==
  StringsOf(ProblemFragments, MaxParts) \cup TestProblems \cup {LongProblem}

\* what request.json() can give: nothing, null, an object without problem,
\* or an object whose problem is null, a number, a boolean, an object or a
\* string
RequestBodies ==
  {Unparsable, JsNull}
  \cup {Body(v) : v \in {Undefined, JsNull, JsNumber(0), JsNumber(42),
                        [type |-> "boolean", value |-> TRUE],
                        [type |-> "object"]}}
  \cup {Body(JsString(t)) : t \in ProblemTexts}

\* process.env.OPENROUTER_API_KEY: unset, empty, or the key of the tests
ApiKeys ==
  {Undefined, JsString(<<>>), JsString(<<"t","e","s","t","-","k","e","y">>)}

\* the content of the AI reply of the tests
TestAiContent ==
  <<"F","I","N","A","L"," ","A","N","S","W","E","R",":"," ","4","\n","E",
    "X","P","L","A","N","A","T","I","O","N",":"," ","2"," ","+"," ","2"," ",
    "="," ","4">>

AiFragments ==
  {<<"R","E","J","E","C","T","E","D",":">>,
   <<"F","I","N","A","L"," ","A","N","S","W","E","R",":">>,
   <<"E","X","P","L","A","N","A","T","I","O","N",":">>,
   <<" ">>,
   <<"\n">>,
   <<" ","4">>,
   <<"2"," ","+"," ","2"," ","="," ","4">>}

\* choices[0].message.content of an OK reply: missing, not a string, the
\* reply of the tests, or a string of the fragments
AiContents ==
  {Undefined, JsNumber(4), JsString(TestAiContent)}
  \cup {JsString(c) : c \in StringsOf(AiFragments, MaxAiParts)}

\* few replies, for runs that vary the request
FewAiContents ==
  {Undefined, JsString(TestAiContent), JsString(RejectedPrefix)}

\* few requests that lead through every step of the handler, for runs that
\* vary the AI reply
FewBodies ==
  {Body(JsString(t)) : t \in TestProblems \cup
     {<<"m","a","x","i","m","i","z","e"," ","c","a","r">>,
      <<"k","i","l","l">>,
      <<"A","n"," ","a","u","t","o","m","o","b","i","l","e"," ","m","a","n",
        "u","f","a","c","t","u","r","e","r"," ","b","u","i","l","d","s"," ",
        "M","o","d","e","l"," ","A"," ","a","n","d"," ","M","o","d","e","l",
        " ","B"," ","c","a","r","s"," ","f","o","r"," ","p","r","o","f","i",
        "t",".">>}}

(***************************************************************************)
(* Executions of the request handler                                       *)
(***************************************************************************)
PostInitRequests == PostInit(RequestBodies, ApiKeys)

PostNext ==
  \/ ReadBody
  \/ Validate
  \/ SafetyCheck
  \/ Heuristic
  \/ Parse
  \/ Solve
  \/ Format
  \/ RespondLocal
  \/ FallThrough
  \/ CheckApiKey
  \/ FetchSettles(FewAiContents)
  \/ HandleReply

\* every request and environment, few AI replies
SpecPost == PostInitRequests /\ [][PostNext]_vars

PostInitReplies == PostInit(FewBodies \cup {Unparsable, Body(Undefined)}, ApiKeys)

AiNext ==
  \/ ReadBody
  \/ Validate
  \/ SafetyCheck
  \/ Heuristic
  \/ Parse
  \/ Solve
  \/ Format
  \/ RespondLocal
  \/ FallThrough
  \/ CheckApiKey
  \/ FetchSettles(AiContents)
  \/ HandleReply

\* few requests, every AI reply
SpecAi == PostInitReplies /\ [][AiNext]_vars

(***************************************************************************)
(* Claims about the request handler                                        *)
(***************************************************************************)
\* the handler has returned
Done == at = "done"

\* the body was read as a JSON object
BodyRead == request.body.type = "object"

\* the body holds a non-empty string as its problem
HasProblemText ==
  /\ BodyRead
  /\ request.body.problem.type = "string"
  /\ request.body.problem.value # <<>>

\* the optimization core was called
SolverCalled == pc # "idle"

\* the AI service was called
AiCalled == aiRequest # NoFetch

\* C11: a request whose body has no problem field, a problem that is not a
\* string, or an empty problem is answered with HTTP 400, status 'rejected'
\* and message 'No problem provided or invalid format', and neither the
\* solver nor the AI service is called for it.
C11_InvalidProblemRejected ==
  (BodyRead /\ ~HasProblemText) =>
    /\ ~SolverCalled
    /\ ~AiCalled
    /\ Done => response = [status |-> 400,
                           body |-> [status |-> "rejected",
                                     message |-> NoProblemMessage]]

\* the requests of the tests ({} and { problem: '' }) and a number as problem
\* have been answered
C11_Witness ==
  /\ Done
  /\ request.body \in {Body(Undefined), Body(JsString(<<>>)), Body(JsNumber(42))}
  /\ response.status = 400

\* the unsafe problems of the tests
UnsafeTestProblems ==
  {<<"H","o","w"," ","t","o"," ","m","a","k","e"," ","a"," ","b","o","m",
     "b","?">>,
   <<"T","e","l","l"," ","m","e"," ","h","o","w"," ","t","o"," ","m","a",
     "k","e"," ","a"," ","b","o","m","b">>}

\* unsafe content: what the patterns of the safety check find in the
\* sanitized text, and the instances of the tests
UnsafeContent(t) ==
  \/ ~isRequestSafe(sanitizeInput(t))
  \/ t \in UnsafeTestProblems

\* C12: a request with unsafe content (as 'How to make a bomb?' and 'Tell me
\* how to make a bomb') is answered with HTTP 400, status 'rejected' and
\* message 'Request contains inappropriate content', before the solver or the
\* AI service is called.
C12_UnsafeContentRejected ==
  (HasProblemText /\ UnsafeContent(request.body.problem.value)) =>
    /\ ~SolverCalled
    /\ ~AiCalled
    /\ Done => response = [status |-> 400,
                           body |-> [status |-> "rejected",
                                     message |-> InappropriateMessage]]

\* the request holds a problem text that passes the safety check
ValidAndSafe ==
  /\ HasProblemText
  /\ isRequestSafe(sanitizeInput(request.body.problem.value))

\* the recognizer has returned a program for the request
LocallySolved == pc \in {"parsed", "solved", "formatted"}

\* C13: when OPENROUTER_API_KEY is not set, a valid, safe problem that the
\* local linear-optimization path does not solve is answered with HTTP 500,
\* status 'error' and message 'Server configuration error', and nothing is
\* fetched from the AI service.
C13_MissingKeyIsConfigurationError ==
  apiKey = Undefined =>
    /\ ~AiCalled
    /\ (Done /\ ValidAndSafe /\ ~LocallySolved) =>
         response = [status |-> 500,
                     body |-> [status |-> "error",
                               message |-> ConfigurationMessage]]

\* the request of the tests ('What is 2 + 2?' without the key) has been
\* answered
C13_Witness ==
  /\ Done
  /\ apiKey = Undefined
  /\ ValidAndSafe
  /\ request.body.problem.value = <<"W","h","a","t"," ","i","s"," ","2"," ","+"," ","2","?">>
  /\ response.status = 500

OkReplyAnswered ==
  /\ Done
  /\ aiReply.kind = "ok"
  /\ aiReply.content.type \in {"string", "undefined"}

\* the content of that reply
RepliedText ==
  IF aiReply.content.type = "string" THEN aiReply.content.value ELSE <<>>

\* the text after the first n characters of c
After(c, n) == SubSeq(c, n + 1, Len(c))

\* where the first 'EXPLANATION:' of c begins, and where the text after it
\* begins
MarkerAt(c) == IndexOfFrom(c, ExplanationMarker, 0)
AfterMarker(c) == MarkerAt(c) + Len(ExplanationMarker)

\* the first line of c
FirstLine(c) ==
  LET breaks == {i \in 1..Len(c) : c[i] = "\n"}
  IN IF breaks = {} THEN c
     ELSE SubSeq(c, 1, (CHOOSE i \in breaks : \A j \in breaks : i <= j) - 1)

\* a 'rejected' response with the text after 'REJECTED:', trimmed or not, or
\* the default message when there is no such text
IsRejectionOf(c) ==
  LET reason == After(c, Len(RejectedPrefix))
  IN /\ response.status = 400
     /\ response.body.status = "rejected"
     /\ response.body.message \in
          IF Trim(reason) = <<>> THEN {FilteredMessage}
          ELSE {reason, Trim(reason)}

IsSuccessWith(finalAnswer, explained) ==
  response = [status |-> 200,
              body |-> [status |-> "success", task |-> sanitizedProblem,
                        final_answer |-> finalAnswer,
                        explanation |-> explained]]

\* C15 (as stated): an OK reply is mapped by its prefix.  'REJECTED:' gives
\* HTTP 400 'rejected' with the text after the prefix or a default message;
\* 'FINAL ANSWER:' together with 'EXPLANATION:' gives 200 'success' with the
\* trimmed text between the two markers and the trimmed text after
\* 'EXPLANATION:'; any other content gives 200 'success' with its first line
\* and the whole content.
C15_MappedByPrefix ==
  OkReplyAnswered =>
    LET c == RepliedText
    IN IF StartsWith(c, RejectedPrefix) THEN IsRejectionOf(c)
       ELSE IF StartsWith(c, FinalAnswerPrefix) /\ MarkerAt(c) # -1
       THEN IsSuccessWith(Trim(SubSeq(c, Len(FinalAnswerPrefix) + 1, MarkerAt(c))),
                          Trim(After(c, AfterMarker(c))))
       ELSE IsSuccessWith(FirstLine(c), c)

\* the explanation of a reply with 'EXPLANATION:': the text after the first
\* marker, up to the next marker if there is one
UpToNextMarker(c) ==
  LET next == IndexOfFrom(c, ExplanationMarker, AfterMarker(c))
  IN SubSeq(c, AfterMarker(c) + 1, IF next = -1 THEN Len(c) ELSE next)

\* C15 (amended): as stated, except that the text after 'REJECTED:' is
\* trimmed; that the explanation ends at a second 'EXPLANATION:'; that
\* 'FINAL ANSWER:' without 'EXPLANATION:' gives the trimmed text after the
\* prefix and 'No detailed explanation provided.'; and that other content
\* whose first line is empty gives the whole content as final answer.
C15_MappedByPrefixWithFallbacks ==
  OkReplyAnswered =>
    LET c == RepliedText
    IN IF StartsWith(c, RejectedPrefix)
       THEN response =
              [status |-> 400,
               body |-> [status |-> "rejected",
                         message |-> IF Trim(After(c, Len(RejectedPrefix))) = <<>>
                                     THEN FilteredMessage
                                     ELSE Trim(After(c, Len(RejectedPrefix)))]]
       ELSE IF StartsWith(c, FinalAnswerPrefix)
       THEN IF MarkerAt(c) # -1
            THEN IsSuccessWith(
                   Trim(SubSeq(c, Len(FinalAnswerPrefix) + 1, MarkerAt(c))),
                   Trim(UpToNextMarker(c)))
            ELSE IsSuccessWith(Trim(After(c, Len(FinalAnswerPrefix))),
                               NoExplanationMessage)
       ELSE IsSuccessWith(IF FirstLine(c) = <<>> THEN c ELSE FirstLine(c), c)

\* the reply of the tests has been mapped to '4' and '2 + 2 = 4'
C15_Witness ==
  /\ OkReplyAnswered
  /\ RepliedText = TestAiContent
  /\ response.status = 200
  /\ response.body.final_answer = <<"4">>
  /\ response.body.explanation = <<"2"," ","+"," ","2"," ","="," ","4">>

\* the request is valid and safe and passes the keyword heuristic
PassesHeuristic ==
  /\ ValidAndSafe
  /\ isLinearOptimizationProblem(sanitizeInput(request.body.problem.value))

\* the recognizer returns a program for the text of the request
Recognized ==
  parseLinearOptimizationProblem(
    PhrasesIn(sanitizeInput(request.body.problem.value))) # NoLP

\* C16: for a valid, safe request that passes the keyword heuristic: if the
\* recognizer returns a program, the handler answers 200 'success' with the
\* answer of the local solver and never calls the AI service, whatever the
\* API key; if the recognizer returns null, the handler returns no solver
\* response but goes on to the check of the API key and then to the fetch.
C16_LocalPathOrFallThrough ==
  PassesHeuristic =>
    IF Recognized
    THEN /\ ~AiCalled
         /\ Done =>
              /\ response.status = 200
              /\ response.body.status = "success"
              /\ response.body.task = sanitizedProblem
              /\ response.body.final_answer =
                   [x |-> solution.x, nameX |-> lp.variables.x,
                    y |-> solution.y, nameY |-> lp.variables.y,
                    objectiveValue |-> solution.objectiveValue]
              /\ response.body.explanation = explanation
              /\ explanation # NoExplanation
    ELSE /\ solution = NoSolution
         /\ AiCalled => ~MissingKey(apiKey)
         /\ Done => \/ AiCalled
                    \/ response = [status |-> 500,
                                   body |-> [status |-> "error",
                                             message |-> ConfigurationMessage]]

\* a recognized problem has been answered by the local solver on a server
\* without API key
C16_Witness ==
  /\ Done
  /\ PassesHeuristic
  /\ Recognized
  /\ apiKey = Undefined
  /\ response.status = 200
  /\ solution.feasible

(***************************************************************************)
(* Calculator component                                                    *)
(***************************************************************************)
\* `shown` is the component's state `explanation`.

\* the largest number of requests the component sends
MaxSubmits == 2

\* 'Please enter a mathematical problem.'
EnterProblemMessage ==
  <<"P","l","e","a","s","e"," ","e","n","t","e","r"," ","a"," ","m","a","t",
    "h","e","m","a","t","i","c","a","l"," ","p","r","o","b","l","e","m",
    ".">>

\* 'Input too long. Please limit your problem to 1000 characters.'
TooLongMessage ==
  <<"I","n","p","u","t"," ","t","o","o"," ","l","o","n","g","."," ","P","l",
    "e","a","s","e"," ","l","i","m","i","t"," ","y","o","u","r"," ","p","r",
    "o","b","l","e","m"," ","t","o"," ","1","0","0","0"," ","c","h","a","r",
    "a","c","t","e","r","s",".">>

\* 'Your request was rejected for safety reasons.'
RejectedDefault ==
  <<"Y","o","u","r"," ","r","e","q","u","e","s","t"," ","w","a","s"," ","r",
    "e","j","e","c","t","e","d"," ","f","o","r"," ","s","a","f","e","t","y",
    " ","r","e","a","s","o","n","s",".">>

\* 'An error occurred while solving the problem.'
ErrorDefault ==
  <<"A","n"," ","e","r","r","o","r"," ","o","c","c","u","r","r","e","d"," ",
    "w","h","i","l","e"," ","s","o","l","v","i","n","g"," ","t","h","e"," ",
    "p","r","o","b","l","e","m",".">>

\* 'Failed to fetch'
FailedToFetch ==
  <<"F","a","i","l","e","d"," ","t","o"," ","f","e","t","c","h">>

\* 'Unexpected end of JSON input'
UnexpectedEnd ==
  <<"U","n","e","x","p","e","c","t","e","d"," ","e","n","d"," ","o","f"," ",
    "J","S","O","N"," ","i","n","p","u","t">>

\* the decimal digits of an HTTP status
StatusDigits(httpStatus) ==
  CASE httpStatus = 400 -> <<"4", "0", "0">>
    [] httpStatus = 502 -> <<"5", "0", "2">>

\* `HTTP error! status: ${response.status}`
HttpErrorMessage(httpStatus) ==
  <<"H","T","T","P"," ","e","r","r","o","r","!"," ","s","t","a","t","u","s",
    ":"," ">> \o StatusDigits(httpStatus)

\* the longest input handleSubmit sends
MaxInputLength == 1000

\* n times the character c
Repeat(c, n) == [i \in 1..n |-> c]

\* what the user can type
TypedProblems ==
  {<<>>, <<" ", "\n">>,
   <<"2"," ","+"," ","2">>,
   <<" ","2"," ","+"," ","2"," ">>,
   Repeat(" ", MaxInputLength + 1),
   <<"2"," ","+"," ","2">> \o Repeat(" ", MaxInputLength - 4)}

\* what the fetch of handleSubmit can settle with: a rejection; a non-OK
\* response with or without a message in its body; an OK response whose body
\* is not JSON; an OK response with data, whose status is 'rejected', 'error',
\* 'success' or none
UiReplies ==
  {[kind |-> "failed", message |-> FailedToFetch],
   [kind |-> "unparsable", message |-> UnexpectedEnd]}
  \cup [kind : {"notok"}, status : {400, 502},
        message : {Undefined, JsString(<<>>), JsString(ConfigurationMessage)}]
  \cup [kind : {"ok"}, status : {"rejected", "error"},
        message : {Undefined, JsString(<<>>), JsString(InappropriateMessage)}]
  \cup {[kind |-> "ok", status |-> "success",
         final_answer |-> JsString(<<"4">>),
         explanation |-> JsString(<<"2"," ","+"," ","2"," ","="," ","4">>)],
        [kind |-> "ok", status |-> "success",
         final_answer |-> Undefined, explanation |-> Undefined],
        [kind |-> "ok", status |-> "none",
         final_answer |-> JsString(<<>>),
         explanation |-> JsString(<<"2"," ","+"," ","2"," ","="," ","4">>)]}

\* field || fallback, for a field that holds a string or is missing
OrElse(field, fallback) == IF Falsy(field) THEN fallback ELSE field.value

\* the component is mounted: no request handler and no optimization core
\* runs in it
UiInit ==
  /\ UiIdle
  /\ PostIdle
  /\ CoreIdle

\* onChange of the textarea, which is disabled while loading
TypeOneOf(typed) ==
  /\ ~isLoading
  /\ problem' \in typed
  /\ UNCHANGED <<result, shown, isLoading, error, history, pending, submits>>
  /\ UNCHANGED <<coreVars, postVars>>

SetProblem == TypeOneOf(TypedProblems)

\* onClick of the Reset button, which is disabled while loading
Reset ==
  /\ ~isLoading
  /\ problem' = <<>>
  /\ UNCHANGED <<result, shown, isLoading, error, history, pending, submits>>
  /\ UNCHANGED <<coreVars, postVars>>

\* the length test applied to the trimmed text
TooLongTrimmed(p) == Len(Trim(p)) > MaxInputLength

\* problem.length > 1000
TooLong(p) == Len(p) > MaxInputLength

\* handleSubmit up to its fetch; the Solve button and the textarea, whose
\* Enter key submits, are disabled while loading; at most `limit` requests
\* are sent
SubmitUpTo(limit) ==
  /\ ~isLoading
  /\ IF Trim(problem) = <<>>
     THEN /\ error' = EnterProblemMessage
          /\ UNCHANGED <<result, shown, isLoading, pending, submits>>
     ELSE IF TooLong(problem)
     THEN /\ error' = TooLongMessage
          /\ UNCHANGED <<result, shown, isLoading, pending, submits>>
     ELSE /\ submits < limit
          /\ isLoading' = TRUE
          /\ error' = <<>>
          /\ result' = <<>>
          /\ shown' = <<>>
          /\ pending' = [sent |-> TRUE, problem |-> Trim(problem)]
          /\ submits' = submits + 1
  /\ UNCHANGED <<problem, history>>
  /\ UNCHANGED <<coreVars, postVars>>

Submit == SubmitUpTo(MaxSubmits)

\* the message of the error thrown or set for a reply that is no success
ErrorOf(reply) ==
  CASE reply.kind \in {"failed", "unparsable"} -> reply.message
    [] reply.kind = "notok" ->
         OrElse(reply.message, HttpErrorMessage(reply.status))
    [] reply.kind = "ok" /\ reply.status = "rejected" ->
         OrElse(reply.message, RejectedDefault)
    [] reply.kind = "ok" /\ reply.status = "error" ->
         OrElse(reply.message, ErrorDefault)

IsSuccess(reply) ==
  reply.kind = "ok" /\ reply.status \notin {"rejected", "error"}

\* the new item appended instead of prepended
AppendItem(item, prev) == SubSeq(prev, 1, Min2(9, Len(prev))) \o <<item>>

\* [newHistoryItem, ...prev.slice(0, 9)]
Prepend(item, prev) == <<item>> \o SubSeq(prev, 1, Min2(9, Len(prev)))

\* handleSubmit from the settling of its fetch to its finally block
SettleWith(reply) ==
  /\ pending.sent
  /\ IF IsSuccess(reply)
     THEN LET newResult == OrElse(reply.final_answer, <<>>)
              newExplanation == OrElse(reply.explanation, <<>>)
          IN /\ result' = newResult
             /\ shown' = newExplanation
             /\ history' = Prepend([problem |-> pending.problem,
                                    result |-> newResult,
                                    explanation |-> newExplanation], history)
             /\ UNCHANGED error
     ELSE /\ error' = ErrorOf(reply)
          /\ UNCHANGED <<result, shown, history>>
  /\ isLoading' = FALSE
  /\ pending' = NoPending
  /\ UNCHANGED <<problem, submits>>
  /\ UNCHANGED <<coreVars, postVars>>

Settle == \E reply \in UiReplies : SettleWith(reply)

\* onClick of an entry of the history, which is not disabled while loading
SelectHistory ==
  /\ \E index \in 1..Len(history) :
       /\ problem' = history[index].problem
       /\ result' = history[index].result
       /\ shown' = history[index].explanation
  /\ UNCHANGED <<isLoading, error, history, pending, submits>>
  /\ UNCHANGED <<coreVars, postVars>>

UiNext ==
  \/ SetProblem
  \/ Reset
  \/ Submit
  \/ Settle
  \/ SelectHistory

SpecUi == UiInit /\ [][UiNext]_vars

(***************************************************************************)
(* Claims about the Calculator component                                   *)
(***************************************************************************)
\* a text that is empty or consists of white space only
Blank(p) == \A i \in 1..Len(p) : p[i] \in WhiteSpace

\* a step that sends no request and leaves the display alone
NothingSent ==
  /\ ~isLoading'
  /\ UNCHANGED <<isLoading, result, shown, history, pending, submits>>

\* C17 (as stated): submitting while the problem is empty or white space only
\* sets the error 'Please enter a mathematical problem.', and submitting a
\* text longer than 1000 characters sets the 'Input too long' error; in both
\* cases no request is sent, isLoading stays false, and result, explanation
\* and history are unchanged.
C17_InvalidSubmitSetsError ==
  [][Submit =>
       /\ Blank(problem) => (error' = EnterProblemMessage /\ NothingSent)
       /\ Len(problem) > 1000 => (error' = TooLongMessage /\ NothingSent)]_vars

\* C17 (amended): the same, the 'Input too long' error being that of a text
\* longer than 1000 characters that is not white space only.
C17_InvalidSubmitSetsFirstError ==
  [][Submit =>
       /\ Blank(problem) => (error' = EnterProblemMessage /\ NothingSent)
       /\ (~Blank(problem) /\ Len(problem) > 1000) =>
            (error' = TooLongMessage /\ NothingSent)]_vars

\* a text of 1001 characters, '2 + 2' and white space, has been submitted and
\* refused
C17_Witness ==
  /\ Len(problem) = 1001
  /\ ~Blank(problem)
  /\ error = TooLongMessage
  /\ ~isLoading
  /\ pending = NoPending
  /\ submits = 0

\* a reply that is no success: a failed fetch, an OK response that cannot be
\* read, a non-OK response, or an OK response with status 'rejected' or
\* 'error'
IsFailure(reply) ==
  \/ reply.kind # "ok"
  \/ reply.status \in {"rejected", "error"}

\* C18: when the response to a submit is non-OK, or is OK with status
\* 'rejected' or 'error', or the fetch fails, the error message is displayed,
\* result and explanation stay empty and history is unchanged; only a response
\* with any other status sets result and explanation and prepends one entry to
\* history.
C18_OnlySuccessChangesDisplay ==
  [][\A reply \in UiReplies :
       SettleWith(reply) =>
         IF IsFailure(reply)
         THEN /\ error' # <<>>
              /\ result' = <<>>
              /\ shown' = <<>>
              /\ history' = history
         ELSE /\ history' # <<>>
              /\ history'[1] = [problem |-> pending.problem,
                                result |-> result',
                                explanation |-> shown']
              /\ Tail(history') = SubSeq(history, 1, Len(history') - 1)
              /\ Len(history') \in {Len(history) + 1, 10}]_vars

(***************************************************************************)
(* Claims about the discrete repair pass                                   *)
(***************************************************************************)
\* the optimal vertex the repair pass starts from
OptimalVertex == BestVertex(solution.vertices, lp.objective).vertex

\* the integer point of the window at (dx, dy) from the rounded vertex, each
\* coordinate clamped to >= 0
WindowPoint(vertex, dx, dy) ==
  Pt(Max0(RAdd(MathRound(vertex.x), I(dx))),
     Max0(RAdd(MathRound(vertex.y), I(dy))))

\* the place of (dx, dy) in the scan, dx outer, dy inner
ScanIndex(dx, dy) == 5 * (dx + 2) + (dy + 2)

\* the repair pass has searched the window of a program: the rounded optimal
\* vertex is infeasible and some integer point of the window is feasible
WindowSearched ==
  /\ Solved
  /\ lp.discrete
  /\ solution.feasible
  /\ ~InRegion(RoundedPoint(OptimalVertex), lp.constraints)
  /\ \E dx \in -2..2, dy \in -2..2 :
        InRegion(WindowPoint(OptimalVertex, dx, dy), lp.constraints)

\* C19: when the rounded optimal vertex is infeasible and some integer point
\* of the 5x5 window around it is feasible, the returned (x, y) is the
\* feasible integer point of the window with the best objective value, the
\* first in scan order (dx outer, dy inner) among equally good ones.
C19_BestFeasibleWindowPoint ==
  WindowSearched =>
    \E dx \in -2..2, dy \in -2..2 :
      LET q == WindowPoint(OptimalVertex, dx, dy)
      IN /\ Returned = q
         /\ InRegion(q, lp.constraints)
         /\ \A ex \in -2..2, ey \in -2..2 :
              LET r == WindowPoint(OptimalVertex, ex, ey)
              IN InRegion(r, lp.constraints) =>
                   /\ AsGoodAs(ValueAt(q, lp.objective),
                               ValueAt(r, lp.objective), lp.objective)
                   /\ (ValueAt(r, lp.objective) = ValueAt(q, lp.objective)
                       /\ r # q) => ScanIndex(dx, dy) < ScanIndex(ex, ey)

\* C20: for every Solution returned with feasible:true, objectiveValue equals
\* objective.a*x + objective.b*y at the returned x and y, on every path.
C20_ValueIsObjectiveAtReturnedPoint ==
  (Solved /\ solution.feasible) =>
    solution.objectiveValue = ValueAt(Returned, lp.objective)

(***************************************************************************)
(* Candidate order and ties                                                *)
(***************************************************************************)
\* the pairs (i, j), i < j, of n constraints; p comes before q when its i is
\* smaller, or its i is the same and its j is smaller
PairsOf(n) == {ij \in (1..n) \X (1..n) : ij[1] < ij[2]}
ComesBefore(p, q) == p[1] < q[1] \/ (p[1] = q[1] /\ p[2] < q[2])
\* the pair at place r of that order
PairAt(n, r) ==
  CHOOSE p \in PairsOf(n) :
    Cardinality({q \in PairsOf(n) : ComesBefore(q, p)}) = r - 1

\* the origin, then the crossing of each pair in that order, NoPoint where the
\* pair has none
PointsInOrder(constraints) ==
  <<Origin>> \o
    [r \in 1..Cardinality(PairsOf(Len(constraints))) |->
       LET ij == PairAt(Len(constraints), r)
       IN  findIntersection(constraints[ij[1]], constraints[ij[2]])]

\* the points of that list that lie in the region, in the same order
FeasibleInOrder(constraints) ==
  SelectSeq(PointsInOrder(constraints),
            LAMBDA point : point # NoPoint /\ InRegion(point, constraints))

\* the vertex at place k is a best one and none before it is as good
FirstOfTheBest(vertices, k, objective) ==
  /\ \A m \in 1..Len(vertices) :
       AsGoodAs(ValueAt(vertices[k], objective), ValueAt(vertices[m], objective),
                objective)
  /\ \A m \in 1..(k - 1) :
       ValueAt(vertices[m], objective) # ValueAt(vertices[k], objective)

\* C21: in the non-discrete case the returned vertices list holds the
\* feasible candidates in candidate order (the origin first, then the
\* intersections of the pairs (i, j), i < j, by i and then by j), and when
\* several of them attain the best objective value the returned (x, y) is
\* the first of them in that order.
C21_FirstOfTheBestInCandidateOrder ==
  (Solved /\ ~lp.discrete /\ solution.feasible) =>
    /\ solution.vertices = FeasibleInOrder(lp.constraints)
    /\ \E k \in 1..Len(solution.vertices) :
         /\ Returned = solution.vertices[k]
         /\ FirstOfTheBest(solution.vertices, k, lp.objective)

\* two different vertices past the origin attain the best value, and the
\* earlier one is returned
C21_Witness ==
  /\ Solved
  /\ ~lp.discrete
  /\ solution.feasible
  /\ \E k, m \in 1..Len(solution.vertices) :
       /\ k < m
       /\ solution.vertices[k] # Origin
       /\ solution.vertices[k] # solution.vertices[m]
       /\ FirstOfTheBest(solution.vertices, k, lp.objective)
       /\ ValueAt(solution.vertices[m], lp.objective)
            = ValueAt(solution.vertices[k], lp.objective)
       /\ Returned = solution.vertices[k]

(***************************************************************************)
(* The geometry kernel on its own: the calls the solver makes to           *)
(* findIntersection and isFeasible                                         *)
(***************************************************************************)
\* constraints with negative, parallel and equal boundary lines
KernelCoefPairs == {<<1, 0>>, <<0, 1>>, <<1, 1>>, <<2, 2>>, <<1, -1>>}
KernelConstraints ==
  {Con(I(ab[1]), I(ab[2]), I(c), t) :
     ab \in KernelCoefPairs, c \in RightHandSides, t \in ConstraintTypes}

\* points inside, outside and on the lines, with negative coordinates, and one
\* that misses x = 1 by 1e-9
KernelPoints ==
  {Pt(I(xy[1]), I(xy[2])) :
     xy \in {<<0, 0>>, <<1, 0>>, <<0, 1>>, <<1, 1>>, <<2, 0>>, <<3, 1>>,
             <<-1, 1>>, <<1, -1>>, <<-1, 3>>}}
    \cup {Pt(Rat(1, 2), Rat(3, 2)), Pt(Rat(1000000001, 1000000000), Zero),
          Pt(Rat(-1, 2), Rat(3, 2))}

\* what a call has returned, with its arguments
Crossed(c1, c2) == [c1 |-> c1, c2 |-> c2, intersection |-> findIntersection(c1, c2)]
Tested(point, constraints) ==
  [point |-> point, feasible |-> isFeasible(point, constraints)]

\* the solver holds a constraint list
KernelInit ==
  /\ pc = "constraints"
  /\ text = NoText
  /\ \E n \in 0..MaxConstraints : \E cs \in [1..n -> KernelConstraints] :
       lp = LP(Zero, Zero, "maximize", cs, "x", "y", FALSE)
  /\ solution = NoSolution
  /\ explanation = NoExplanation
  /\ PostIdle
  /\ UiIdle

\* findIntersection(constraints[i], constraints[j])
Intersect ==
  /\ pc = "constraints"
  /\ \E i, j \in 1..Len(lp.constraints) :
       solution' = Crossed(lp.constraints[i], lp.constraints[j])
  /\ pc' = "crossed"
  /\ UNCHANGED <<text, lp, explanation, postVars, uiVars>>

\* isFeasible(point, constraints)
TestFeasible ==
  /\ pc = "constraints"
  /\ \E point \in KernelPoints : solution' = Tested(point, lp.constraints)
  /\ pc' = "tested"
  /\ UNCHANGED <<text, lp, explanation, postVars, uiVars>>

KernelNext == Intersect \/ TestFeasible

SpecKernel == KernelInit /\ [][KernelNext]_vars

\* the determinant of the two boundary lines, and its being zero within 1e-10
Determinant(c1, c2) == RSub(RMul(c1.a, c2.b), RMul(c1.b, c2.a))
NearZero(r) == LtTol(RAbs(r))
\* the point lies on the boundary line of the constraint
OnLine(point, c) == RAdd(RMul(c.a, point.x), RMul(c.b, point.y)) = c.c

\* C22: findIntersection returns none exactly when the determinant
\* c1.a*c2.b - c1.b*c2.a is zero within 1e-10, whatever the types of the two
\* constraints; otherwise it returns the one point that satisfies both
\* constraints as equalities, and the same result for the arguments in
\* either order.
C22_IntersectionOfBoundaryLines ==
  pc = "crossed" =>
    LET c1 == solution.c1
        c2 == solution.c2
        point == solution.intersection
    IN  /\ point = NoPoint <=> NearZero(Determinant(c1, c2))
        /\ point # NoPoint =>
             /\ OnLine(point, c1)
             /\ OnLine(point, c2)
             /\ \A other \in KernelPoints :
                  (OnLine(other, c1) /\ OnLine(other, c2)) => other = point
        /\ findIntersection(c2, c1) = point

\* two lines of a negative determinant and of different types cross in a point
C22_Witness ==
  /\ pc = "crossed"
  /\ solution.intersection # NoPoint
  /\ solution.c1.type # solution.c2.type
  /\ RLt(Determinant(solution.c1, solution.c2), Zero)

\* C23: isFeasible answers true exactly when the point satisfies the relation
\* of every constraint within the tolerance and has x >= 0 and y >= 0; with
\* an empty constraint list too, a point with a negative coordinate is not
\* feasible.
C23_FeasibleIffInRegion ==
  pc = "tested" =>
    /\ solution.feasible <=> InRegion(solution.point, lp.constraints)
    /\ (RLt(solution.point.x, Zero) \/ RLt(solution.point.y, Zero))
         => ~solution.feasible

\* a point with a negative coordinate was tested against no constraint
C23_Witness ==
  /\ pc = "tested"
  /\ lp.constraints = <<>>
  /\ RLt(solution.point.y, Zero)
  /\ ~solution.feasible

(***************************************************************************)
(* Order of the constraints                                                *)
(***************************************************************************)
\* the Solution of the program with its constraints listed in the order f
SolutionReordered(p, f) ==
  solveLinearOptimization([p EXCEPT !.constraints = Reordered(p.constraints, f)])

\* C24: for every program, discrete or not, listing the same constraints in
\* another order gives the same feasible flag and the same objectiveValue.
C24_OrderOfConstraintsIrrelevant ==
  Solved =>
    \A f \in Orderings(Len(lp.constraints)) :
      /\ SolutionReordered(lp, f).feasible = solution.feasible
      /\ SolutionReordered(lp, f).objectiveValue = solution.objectiveValue

\* the same without the discrete flag
C24_OrderIrrelevantWhenContinuous ==
  (Solved /\ ~lp.discrete) =>
    \A f \in Orderings(Len(lp.constraints)) :
      /\ SolutionReordered(lp, f).feasible = solution.feasible
      /\ SolutionReordered(lp, f).objectiveValue = solution.objectiveValue

(***************************************************************************)
(* The infeasible verdict                                                  *)
(***************************************************************************)
\* C26: feasible:false is returned only if the feasible region, the points
\* with x >= 0 and y >= 0 that satisfy every constraint, is really empty; the
\* single constraint x >= 1 has a non-empty region and gets feasible:true.
C26_InfeasibleOnlyIfRegionEmpty ==
  (Solved /\ ~solution.feasible) => ~RegionNonEmpty(lp.constraints)

(***************************************************************************)
(* A long session of the Calculator component: one text typed again and    *)
(* again, few replies, enough submissions to fill the history              *)
(***************************************************************************)
\* the submissions of a long session
MaxSessionSubmits == 11

SessionProblems == {<<" ","2"," ","+"," ","2"," ">>}
SessionReplies ==
  {[kind |-> "ok", status |-> "success",
    final_answer |-> JsString(<<"4">>),
    explanation |-> JsString(<<"2"," ","+"," ","2"," ","="," ","4">>)],
   [kind |-> "ok", status |-> "success",
    final_answer |-> Undefined, explanation |-> Undefined],
   [kind |-> "failed", message |-> FailedToFetch]}

SessionType == TypeOneOf(SessionProblems)
SessionSubmit == SubmitUpTo(MaxSessionSubmits)
SessionSettle == \E reply \in SessionReplies : SettleWith(reply)

SessionNext ==
  \/ SessionType
  \/ SessionSubmit
  \/ SessionSettle
  \/ SelectHistory

SpecSession == UiInit /\ [][SessionNext]_vars

\* the step ends a submission with success: the request settles and no error
\* is set
SettlesWithSuccess == isLoading /\ ~isLoading' /\ error' = <<>>

\* C25: the history never holds more than 10 entries and holds them newest
\* first: a successful submission prepends exactly one entry, made of the
\* trimmed problem that was submitted and of the result and explanation
\* returned for that submission, and drops the oldest entry when 10 are
\* present; no other step changes the history.
C25_HistoryNewestFirstAtMostTen ==
  [][/\ Len(history) <= 10
     /\ IF SettlesWithSuccess
        THEN /\ Len(history') = Min2(Len(history) + 1, 10)
             /\ history'[1] = [problem |-> pending.problem,
                               result |-> result', explanation |-> shown']
             /\ pending.problem = Trim(pending.problem)
             /\ \A k \in 2..Len(history') : history'[k] = history[k - 1]
        ELSE history' = history]_vars

\* the history is full and its entries are not all the same
C25_Witness ==
  /\ Len(history) = 10
  /\ submits > 10
  /\ history[1] # history[10]
  /\ ~isLoading

(***************************************************************************)
(* Order of the handler's stages and the text they work on                 *)
(***************************************************************************)
\* the problem of the request, and that text trimmed and cut to its first
\* 1000 characters
RawProblem == request.body.problem.value
TrimmedAndCut(t) == SubSeq(Trim(t), 1, Min2(Len(Trim(t)), 1000))

\* C27: the solver and the AI service are reached only after the validation
\* and the safety check have passed; the safety check is applied to the
\* sanitized text (trimmed, at most 1000 characters), and the text handed to
\* the recognizer or sent to the AI service is exactly that text, never the
\* raw input.
C27_CheckedTextIsWhatIsSolved ==
  /\ (SolverCalled \/ AiCalled) => HasProblemText
  /\ HasProblemText =>
       \E clean \in {TrimmedAndCut(RawProblem)} :
         /\ (SolverCalled \/ AiCalled) =>
              /\ isRequestSafe(clean)
              /\ SolverCalled => text = PhrasesIn(clean)
              /\ AiCalled => aiRequest.content = clean
         /\ Done =>
              (response = [status |-> 400,
                           body |-> [status |-> "rejected",
                                     message |-> InappropriateMessage]]
                 <=> ~isRequestSafe(clean))

\* a text with 'key' beyond its 1000th character has been sent to the AI
\* service without it
C27_Witness ==
  /\ HasProblemText
  /\ AiCalled
  /\ Len(RawProblem) > 1000
  /\ ~isRequestSafe(RawProblem)
  /\ aiRequest.content # RawProblem

(***************************************************************************)
(* Every execution of the handler ends with one response                   *)
(***************************************************************************)
\* the pairs (HTTP status, status of the body) of a response
Outcomes ==
  {<<200, "success">>, <<400, "rejected">>, <<500, "error">>, <<502, "error">>}

\* an exception was thrown outside the solver block: the body of the request
\* could not be read, the fetch was rejected, the body of the AI reply could
\* not be parsed, or its content is a value without startsWith
ThrownOutsideSolver ==
  \/ ~BodyRead
  \/ aiReply.kind \in {"failed", "unparsable"}
  \/ /\ aiReply.kind = "ok"
     /\ ~Falsy(aiReply.content)
     /\ TypeOf(aiReply.content) # "string"

\* C28: every execution in which the AI fetch settles ends with exactly one
\* response, whose (HTTP status, body status) is (200, success),
\* (400, rejected), (500, error) or (502, error); an exception outside the
\* solver block (unparsable request body, failed fetch, unparsable AI body)
\* gives 500 with 'Internal server error' and does not propagate.
\* An execution ends with a response when the handler stands before a step
\* that nothing holds up (HandleReply after the fetch, ReadBody at the start)
\* and that step returns one.
C28_OneResponseOfFourKinds ==
  /\ [](Done =>
         /\ <<response.status, response.body.status>> \in Outcomes
         /\ ThrownOutsideSolver =>
              response = [status |-> 500,
                          body |-> [status |-> "error",
                                    message |-> InternalErrorMessage]])
  /\ [](response # NoResponse <=> Done)
  /\ []((aiReply # NoReply /\ ~Done) => at = "reply")
  /\ []((~BodyRead /\ ~Done) => at = "received")
  /\ [][/\ (aiReply # NoReply \/ ~BodyRead) => Done'
        /\ response # NoResponse => response' = response]_vars

\* the fetch was rejected and the handler has answered
C28_Witness ==
  /\ Done
  /\ aiReply.kind = "failed"
  /\ response.status = 500

(***************************************************************************)
(* Empty problems                                                          *)
(***************************************************************************)
\* the problem of the request is a string that is empty after sanitizing
EmptyWhenSanitized ==
  /\ BodyRead
  /\ request.body.problem.type = "string"
  /\ TrimmedAndCut(RawProblem) = <<>>

\* C29: the text handed to the recognizer or sent to the AI service is never
\* empty: a request whose problem is empty after sanitizing, as one of white
\* space only, is rejected with HTTP 400 before the solver or the AI service
\* is reached.
C29_EmptyAfterSanitizingRejected ==
  /\ AiCalled => aiRequest.content # <<>>
  /\ EmptyWhenSanitized =>
       /\ ~SolverCalled
       /\ ~AiCalled
       /\ Done => response.status = 400

(***************************************************************************)
(* Selecting a history entry while a request is in flight                  *)
(***************************************************************************)
\* the entry is what the component displays
Displayed(entry) ==
  /\ problem = entry.problem
  /\ result = entry.result
  /\ shown = entry.explanation

\* A submission clears result and explanation, and while it is in flight only
\* the selection of an entry sets them: a result or explanation displayed
\* while a request is in flight is that of an entry selected meanwhile.
SelectedInFlight ==
  /\ isLoading
  /\ result # <<>> \/ shown # <<>>
  /\ \E index \in 1..Len(history) : Displayed(history[index])

\* C30: after a history entry was selected, the displayed result and
\* explanation stay those of the entry until the user's next submit or
\* selection, also when a request was in flight at the selection: the late
\* response does not overwrite them.
C30_SelectedEntryStaysDisplayed ==
  [][(SelectedInFlight /\ ~SelectHistory) => UNCHANGED <<result, shown>>]_vars

====
